---- MODULE Spec2Model ----
(***************************************************************************)
(* A model of asn1ate's semantic layer (src/asn1ate/sema.py):              *)
(*   - the sema nodes with their reference_name() / references() methods;  *)
(*   - the node factory _create_sema_node and build_semantic_model, with   *)
(*     the process-wide counter behind _get_next_unnamed;                  *)
(*   - Module.user_types / Module.resolve_type_decl, the module resolver;  *)
(*   - topological_sort, the dependency sorter.                            *)
(*                                                                         *)
(* A Python object is a record with a field "class" and one field per      *)
(* attribute; reading an attribute an object lacks raises AttributeError.  *)
(* A str is the record Str(s), a list held by a token or an attribute is   *)
(* PyList(items), so that every value tells its class: a name is a str in  *)
(* a parsed module, but the code stores and hashes whatever it is given.   *)
(* A call is modelled by its outcome: [status |-> "return", value |-> v]   *)
(* or [status |-> "raise", exc |-> <exception class>, arg |-> <argument>]. *)
(* Python dicts are modelled with the insertion order of CPython >= 3.7.   *)
(* The iteration order of a Python set is not defined by the language: an  *)
(* iteration over a set is a nondeterministic choice of an enumeration.    *)
(***************************************************************************)
EXTENDS Integers, Sequences, FiniteSets, TLC

VARIABLES
    decls,            \* the collection handed to topological_sort
    sort_result,      \* outcome of the latest topological_sort(decls)
    sort_previous,    \* outcome of the run of topological_sort(decls) before it
    _unnamed_counter, \* the module-level global of sema.py
    issued,           \* history: every value _get_next_unnamed has returned
    build_result,     \* outcome of the latest build_semantic_model
    a_build_failed,   \* history: some build_semantic_model of the process raised
    module,           \* a Module built by the factory
    call,             \* the latest call made on module, with its outcome
    ut_calls          \* history: the outcomes of the calls of module.user_types()

sort_vars == <<decls, sort_result, sort_previous>>
build_vars == <<_unnamed_counter, issued, build_result, a_build_failed>>
module_vars == <<module, call, ut_calls>>
vars == <<sort_vars, build_vars, module_vars>>

(***************************************************************************)
(* Bounds of the model.                                                    *)
(***************************************************************************)
MaxRefs == 3        \* names in one entity's references()
MaxComponents == 2  \* components of a SEQUENCE handed to the builder
MaxUnnamed == 6     \* no build starts once the counter has reached this
MaxDeclarations == 3 \* declarations of a Module
MaxCalls == 2       \* recorded calls of user_types()
RecursionLimit == 6 \* frames at which the interpreter raises RecursionError

(***************************************************************************)
(* Generic helpers.                                                        *)
(***************************************************************************)
Range(s) == {s[i] : i \in 1..Len(s)}

\* every enumeration (as a sequence without repetition) of the finite set S
Enumerations(S) ==
    {s \in [1..Cardinality(S) -> S] : \A i, j \in 1..Cardinality(S) : s[i] = s[j] => i = j}

Return(v) == [status |-> "return", value |-> v]
Raise(exc, arg) == [status |-> "raise", exc |-> exc, arg |-> arg]
NoResult == [status |-> "none"]

\* Python's None and a Python str
None == [class |-> "NoneType"]
Str(s) == [class |-> "str", s |-> s]

(***************************************************************************)
(* The sema nodes: one constructor per class, the fields are the           *)
(* attributes the class's __init__ sets.                                   *)
(***************************************************************************)
ModuleNode(name, declarations) ==
    [class |-> "Module", name |-> name, declarations |-> declarations, _user_types |-> <<>>]

TypeAssignmentNode(type_name, type_decl) ==
    [class |-> "TypeAssignment", type_name |-> type_name, type_decl |-> type_decl]

ValueAssignmentNode(value_name, type_decl, value) ==
    [class |-> "ValueAssignment", value_name |-> value_name, type_decl |-> type_decl,
     value |-> value]

ValueReferenceNode(name) == [class |-> "ValueReference", name |-> name]

\* cls is "SequenceType" or "ChoiceType"
ConstructedTypeNode(cls, type_name, components) ==
    [class |-> cls, type_name |-> type_name, components |-> components]

\* cls is "SequenceOfType" or "SetOfType"
CollectionTypeNode(cls, type_name, type_decl) ==
    [class |-> cls, type_name |-> type_name, type_decl |-> type_decl]

TaggedTypeNode(class_name, class_number, implicit, type_decl) ==
    [class |-> "TaggedType", class_name |-> class_name, class_number |-> class_number,
     implicit |-> implicit, type_decl |-> type_decl]

SimpleTypeNode(type_name, constraint) ==
    [class |-> "SimpleType", type_name |-> type_name, constraint |-> constraint]

UserDefinedTypeNode(type_name) == [class |-> "UserDefinedType", type_name |-> type_name]

ConstraintNode(min_value, max_value) ==
    [class |-> "Constraint", min_value |-> min_value, max_value |-> max_value]

ComponentTypeNode(identifier, optional, default_value, type_decl) ==
    [class |-> "ComponentType", identifier |-> identifier, optional |-> optional,
     default_value |-> default_value, type_decl |-> type_decl]

NamedTypeNode(identifier, type_decl) ==
    [class |-> "NamedType", identifier |-> identifier, type_decl |-> type_decl]

ValueListTypeNode(type_name, named_values) ==
    [class |-> "ValueListType", type_name |-> type_name, named_values |-> named_values]

BitStringTypeNode(type_name, named_bits) ==
    [class |-> "BitStringType", type_name |-> type_name, named_bits |-> named_bits]

NamedValueNode(identifier, value) ==
    [class |-> "NamedValue", identifier |-> identifier, value |-> value]

\* an object of the caller's own with the two methods topological_sort asks for
Entity(name, refs) == [class |-> "Entity", name |-> name, refs |-> refs]

(***************************************************************************)
(* Attributes and methods of the nodes.                                    *)
(***************************************************************************)
\* node.type_name: an attribute, but a property of TaggedType (lines 289-291)
RECURSIVE type_name(_)
type_name(node) ==
    IF node.class = "TaggedType" THEN type_name(node.type_decl)
    ELSE IF "type_name" \in DOMAIN node THEN Return(node.type_name)
    ELSE Raise("AttributeError", "type_name")

\* node.reference_name(): the classes that define the method, AttributeError
\* for the others
reference_name(node) ==
    CASE node.class = "TypeAssignment" -> Return(node.type_name)
      [] node.class = "ValueAssignment" -> Return(node.value_name.name)
      [] node.class = "ValueReference" -> Return(node.name)
      [] node.class = "TaggedType" -> type_name(node.type_decl)
      [] node.class = "SimpleType" -> Return(node.type_name)
      [] node.class = "Entity" -> Return(node.name)
      [] OTHER -> Raise("AttributeError", "reference_name")

\* Constraint.references (lines 362-370)
ConstraintReferences(node) ==
    (IF node.min_value.class = "ValueReference" THEN <<node.min_value.name>> ELSE <<>>)
    \o (IF node.max_value.class = "ValueReference" THEN <<node.max_value.name>> ELSE <<>>)

\* ValueAssignment.references (lines 175-183)
ValueAssignmentReferences(node) ==
    LET first == reference_name(node.type_decl)
    IN  IF first.status = "raise" THEN first
        ELSE Return(<<first.value>>
                    \o (IF node.value.class = "ValueReference"
                        THEN <<node.value.name>> ELSE <<>>))

\* node.references(): the list the method returns
RECURSIVE references(_)
RECURSIVE ConstructedReferences(_, _)
\* ConstructedType.references (lines 213-217), from component i on
ConstructedReferences(components, i) ==
    IF i > Len(components) THEN Return(<<>>)
    ELSE LET r == references(components[i])
             rest == ConstructedReferences(components, i + 1)
         IN  IF r.status = "raise" THEN r
             ELSE IF rest.status = "raise" THEN rest
             ELSE Return(r.value \o rest.value)

references(node) ==
    CASE node.class \in {"TypeAssignment", "SequenceOfType", "SetOfType", "TaggedType",
                         "ComponentType", "NamedType"} -> references(node.type_decl)
      [] node.class = "ValueAssignment" -> ValueAssignmentReferences(node)
      [] node.class \in {"SequenceType", "ChoiceType"} ->
            ConstructedReferences(node.components, 1)
      [] node.class = "SimpleType" ->
            Return(<<node.type_name>>
                   \o (IF node.constraint.class = "Constraint"
                       THEN ConstraintReferences(node.constraint) ELSE <<>>))
      [] node.class = "UserDefinedType" -> Return(<<node.type_name>>)
      [] node.class = "Constraint" -> Return(ConstraintReferences(node))
      [] node.class \in {"ValueReference", "ValueListType", "BitStringType", "NamedValue"} ->
            Return(<<>>)
      [] node.class = "Entity" -> Return(node.refs)
      [] OTHER -> Raise("AttributeError", "references")

(***************************************************************************)
(* The token tree handed over by the parser, and the node factory.         *)
(* A constructor takes the token's elements and the module-level globals   *)
(* g = [counter, issued]; it ends in Ok(node, g') or in Fail(exc, arg, g') *)
(* where g' are the globals as the constructor leaves them.                *)
(***************************************************************************)
AnnotatedToken(ty, elements) == [class |-> "AnnotatedToken", ty |-> ty, elements |-> elements]
PyList(items) == [class |-> "list", items |-> items]

Ok(v, g) == [status |-> "return", value |-> v, globals |-> g]
Fail(exc, arg, g) == [status |-> "raise", exc |-> exc, arg |-> arg, globals |-> g]

\* type(obj) is parser.AnnotatedToken; every value a token tree holds (a str,
\* a list, None, a token) carries its class
IsToken(obj) == obj.class = "AnnotatedToken"
IsStr(obj) == obj.class = "str"
IsList(obj) == obj.class = "list"

\* elements[i] past the end of the list
IndexError(g) == Fail("IndexError", "list index out of range", g)

\* 'unnamed%d' % n
FormatUnnamed(n) == Str("unnamed" \o ToString(n))

GetNextUnnamedForgets(g) ==
    [value |-> FormatUnnamed(g.counter + 1),
     globals |-> [counter |-> g.counter,
                  issued |-> Append(g.issued, [n |-> g.counter + 1,
                                               identifier |-> FormatUnnamed(g.counter + 1)])]]

\* _get_next_unnamed (lines 551-555): the identifier returned and the globals
\* after the call
_get_next_unnamed(g) ==
    [value |-> FormatUnnamed(g.counter + 1),
     globals |-> [counter |-> g.counter + 1,
                  issued |-> Append(g.issued, [n |-> g.counter + 1,
                                               identifier |-> FormatUnnamed(g.counter + 1)])]]

RECURSIVE _create_sema_node(_, _)
RECURSIVE CreateAll(_, _)

\* [_create_sema_node(token) for token in tokens], tokens a list
CreateAll(tokens, g) ==
    IF tokens = <<>> THEN Ok(<<>>, g)
    ELSE LET first == _create_sema_node(Head(tokens), g)
         IN  IF first.status = "raise" THEN first
             ELSE LET rest == CreateAll(Tail(tokens), first.globals)
                  IN  IF rest.status = "raise" THEN rest
                      ELSE Ok(<<first.value>> \o rest.value, rest.globals)

\* [_create_sema_node(token) for token in obj], obj an element of a token: a
\* str is iterated character by character (none of them a token), a token and
\* None are not iterable
CreateEach(obj, g) ==
    IF IsList(obj) THEN CreateAll(obj.items, g)
    ELSE IF IsStr(obj) THEN IF obj.s = "" THEN Ok(<<>>, g) ELSE Fail("AssertionError", "", g)
    ELSE Fail("TypeError", "not iterable", g)

\* _maybe_create_sema_node (lines 496-500)
_maybe_create_sema_node(token, g) ==
    IF IsToken(token) THEN _create_sema_node(token, g) ELSE Ok(token, g)

\* Module.__init__ (lines 104-111): the name is read (line 110) before the
\* declarations are created (line 111)
Module(elements, g) ==
    IF Len(elements) # 6 THEN Fail("ValueError", "unpack", g)
    ELSE IF ~IsToken(elements[1]) \/ ~IsToken(elements[5]) THEN Fail("AssertionError", "", g)
    ELSE IF elements[1].elements = <<>> THEN IndexError(g)
    ELSE LET body == CreateAll(elements[5].elements, g)
         IN  IF body.status = "raise" THEN body
             ELSE Ok(ModuleNode(elements[1].elements[1], body.value), body.globals)

\* TypeAssignment.__init__ (lines 143-147)
TypeAssignment(elements, g) ==
    IF Len(elements) # 3 THEN Fail("AssertionError", "", g)
    ELSE LET t == _create_sema_node(elements[3], g)
         IN  IF t.status = "raise" THEN t
             ELSE Ok(TypeAssignmentNode(elements[1], t.value), t.globals)

\* ValueReference.__init__ (lines 192-193)
ValueReference(elements, g) ==
    IF elements = <<>> THEN IndexError(g)
    ELSE Ok(ValueReferenceNode(elements[1]), g)

\* ValueAssignment.__init__ (lines 162-170): the ValueReference (line 164),
\* then the type (line 165), then the value (lines 167-170)
ValueAssignment(elements, g) ==
    IF Len(elements) # 4 THEN Fail("ValueError", "unpack", g)
    ELSE IF ~IsToken(elements[1]) THEN Fail("AttributeError", "elements", g)
    ELSE LET n == ValueReference(elements[1].elements, g)
         IN  IF n.status = "raise" THEN n
             ELSE LET t == _create_sema_node(elements[2], n.globals)
                  IN  IF t.status = "raise" THEN t
                      ELSE LET v == _maybe_create_sema_node(elements[4], t.globals)
                           IN  IF v.status = "raise" THEN v
                               ELSE Ok(ValueAssignmentNode(n.value, t.value, v.value),
                                       v.globals)

\* ConstructedType.__init__ (lines 208-211), for SequenceType and ChoiceType
ConstructedType(cls, elements, g) ==
    IF Len(elements) # 2 THEN Fail("ValueError", "unpack", g)
    ELSE LET cs == CreateEach(elements[2], g)
         IN  IF cs.status = "raise" THEN cs
             ELSE Ok(ConstructedTypeNode(cls, elements[1], cs.value), cs.globals)

\* SequenceOfType.__init__ and SetOfType.__init__ (lines 237-240, 252-255)
CollectionType(cls, elements, g) ==
    IF Len(elements) # 2 THEN Fail("ValueError", "unpack", g)
    ELSE LET t == _create_sema_node(elements[2], g)
         IN  IF t.status = "raise" THEN t
             ELSE Ok(CollectionTypeNode(cls, elements[1], t.value), t.globals)

\* the loop of lines 279-285 from the i-th tag element on: every element is
\* looked at in turn, a later element of the same ty overwrites an earlier one
RECURSIVE TagLoop(_, _, _, _, _)
TagLoop(tag_elements, i, class_name, class_number, g) ==
    IF i > Len(tag_elements)
    THEN Ok([class_name |-> class_name, class_number |-> class_number], g)
    ELSE LET tag_element == tag_elements[i]
         IN  IF ~IsToken(tag_element) THEN Fail("AttributeError", "ty", g)
             ELSE IF tag_element.ty = "TagClassNumber"
             THEN IF tag_element.elements = <<>> THEN IndexError(g)
                  ELSE TagLoop(tag_elements, i + 1, class_name, tag_element.elements[1], g)
             ELSE IF tag_element.ty = "TagClass"
             THEN IF tag_element.elements = <<>> THEN IndexError(g)
                  ELSE TagLoop(tag_elements, i + 1, tag_element.elements[1], class_number, g)
             ELSE Fail("AssertionError", "Unknown tag element", g)

\* TaggedType.__init__ (lines 267-287): the type token is picked (lines
\* 273-277) before the tag elements are read
TaggedType(elements, g) ==
    IF Len(elements) < 2 THEN IndexError(g)
    ELSE IF ~IsToken(elements[2]) /\ Len(elements) < 3 THEN IndexError(g)
    ELSE IF ~IsToken(elements[1]) THEN Fail("AttributeError", "elements", g)
    ELSE LET bare == IsToken(elements[2])
             type_token == IF bare THEN elements[2] ELSE elements[3]
             implicit == ~bare /\ IsStr(elements[2]) /\ elements[2].s = "IMPLICIT"
             tag == TagLoop(elements[1].elements, 1, None, None, g)
         IN  IF tag.status = "raise" THEN tag
             ELSE LET t == _create_sema_node(type_token, g)
                  IN  IF t.status = "raise" THEN t
                      ELSE Ok(TaggedTypeNode(tag.value.class_name, tag.value.class_number,
                                             implicit, t.value), t.globals)

\* Constraint.__init__ (lines 356-360)
Constraint(elements, g) ==
    IF Len(elements) # 2 THEN Fail("ValueError", "unpack", g)
    ELSE LET lo == _maybe_create_sema_node(elements[1], g)
         IN  IF lo.status = "raise" THEN lo
             ELSE LET hi == _maybe_create_sema_node(elements[2], lo.globals)
                  IN  IF hi.status = "raise" THEN hi
                      ELSE Ok(ConstraintNode(lo.value, hi.value), hi.globals)

\* SimpleType.__init__ (lines 317-321)
SimpleType(elements, g) ==
    IF elements = <<>> THEN IndexError(g)
    ELSE IF Len(elements) > 1 /\ ~IsToken(elements[2]) THEN Fail("AttributeError", "ty", g)
    ELSE IF Len(elements) > 1 /\ elements[2].ty = "Constraint"
    THEN LET c == Constraint(elements[2].elements, g)
         IN  IF c.status = "raise" THEN c
             ELSE Ok(SimpleTypeNode(elements[1], c.value), c.globals)
    ELSE Ok(SimpleTypeNode(elements[1], None), g)

\* UserDefinedType.__init__ (lines 343-344)
UserDefinedType(elements, g) ==
    IF elements = <<>> THEN IndexError(g)
    ELSE Ok(UserDefinedTypeNode(elements[1]), g)

\* ComponentType.__init__ (lines 379-401). The identifier of an unnamed member
\* is drawn before the member's type is built. A first token that is neither a
\* Type nor an Identifier leaves elements whole and type_token unbound: the
\* OPTIONAL and DEFAULT parts (lines 392-399) still run before line 401 reads
\* type_token. 'elements and ...' (line 392) yields the empty list itself when
\* nothing follows the type.
ComponentType(elements, g) ==
    IF elements = <<>> THEN IndexError(g)
    ELSE IF ~IsToken(elements[1]) THEN Fail("AttributeError", "ty", g)
    ELSE
    LET first_token == elements[1]
        unnamed == first_token.ty = "Type"
        named == first_token.ty = "Identifier"
        next == _get_next_unnamed(g)
        g1 == IF unnamed THEN next.globals ELSE g
        identifier == IF unnamed THEN next.value ELSE first_token.elements[1]
        type_token == IF unnamed THEN first_token ELSE elements[2]
        rest == IF unnamed THEN Tail(elements)
                ELSE IF named THEN SubSeq(elements, 3, Len(elements))
                ELSE elements
        optional == IF rest = <<>> THEN PyList(<<>>)
                    ELSE rest[1].ty = "ComponentOptional"
        has_default == rest # <<>> /\ rest[1].ty = "ComponentDefault"
    IN  IF named /\ first_token.elements = <<>> THEN IndexError(g)
        ELSE IF named /\ Len(elements) < 2 THEN IndexError(g)
        ELSE IF rest # <<>> /\ ~IsToken(rest[1]) THEN Fail("AttributeError", "ty", g1)
        ELSE IF has_default /\ rest[1].elements = <<>> THEN IndexError(g1)
        ELSE IF has_default /\ rest[1].elements[1] # Str("DEFAULT")
        THEN Fail("AssertionError", "", g1)
        ELSE IF has_default /\ Len(rest[1].elements) < 2 THEN IndexError(g1)
        ELSE IF ~unnamed /\ ~named THEN Fail("UnboundLocalError", "type_token", g1)
        ELSE LET t == _create_sema_node(type_token, g1)
             IN  IF t.status = "raise" THEN t
                 ELSE Ok(ComponentTypeNode(identifier, optional,
                                           IF has_default THEN rest[1].elements[2] ELSE None,
                                           t.value), t.globals)

\* NamedType.__init__ (lines 421-425): the two assertions, the identifier
\* (line 424), then the type (line 425)
NamedType(elements, g) ==
    IF elements = <<>> THEN IndexError(g)
    ELSE IF ~IsToken(elements[1]) THEN Fail("AttributeError", "ty", g)
    ELSE IF elements[1].ty # "Identifier" THEN Fail("AssertionError", "", g)
    ELSE IF Len(elements) < 2 THEN IndexError(g)
    ELSE IF ~IsToken(elements[2]) THEN Fail("AttributeError", "ty", g)
    ELSE IF elements[2].ty # "Type" THEN Fail("AssertionError", "", g)
    ELSE IF elements[1].elements = <<>> THEN IndexError(g)
    ELSE LET t == _create_sema_node(elements[2], g)
         IN  IF t.status = "raise" THEN t
             ELSE Ok(NamedTypeNode(elements[1].elements[1], t.value), t.globals)

\* ValueListType.__init__ (lines 437-442)
ValueListType(elements, g) ==
    IF elements = <<>> THEN IndexError(g)
    ELSE IF Len(elements) > 1
    THEN LET vs == CreateEach(elements[2], g)
         IN  IF vs.status = "raise" THEN vs
             ELSE Ok(ValueListTypeNode(elements[1], PyList(vs.value)), vs.globals)
    ELSE Ok(ValueListTypeNode(elements[1], None), g)

\* BitStringType.__init__ (lines 459-464)
BitStringType(elements, g) ==
    IF elements = <<>> THEN IndexError(g)
    ELSE IF Len(elements) > 1
    THEN LET vs == CreateEach(elements[2], g)
         IN  IF vs.status = "raise" THEN vs
             ELSE Ok(BitStringTypeNode(elements[1], PyList(vs.value)), vs.globals)
    ELSE Ok(BitStringTypeNode(elements[1], None), g)

\* NamedValue.__init__ (lines 481-484)
NamedValue(elements, g) ==
    IF Len(elements) # 2 THEN Fail("ValueError", "unpack", g)
    ELSE IF ~IsToken(elements[1]) THEN Fail("AttributeError", "elements", g)
    ELSE IF elements[1].elements = <<>> THEN IndexError(g)
    ELSE IF ~IsToken(elements[2]) THEN Fail("AttributeError", "elements", g)
    ELSE IF elements[2].elements = <<>> THEN IndexError(g)
    ELSE Ok(NamedValueNode(elements[1].elements[1], elements[2].elements[1]), g)

\* _create_sema_node (lines 503-543), with _assert_annotated_token (546-547)
_create_sema_node(token, g) ==
    IF ~IsToken(token) THEN Fail("AssertionError", "", g)
    ELSE CASE token.ty = "ModuleDefinition" -> Module(token.elements, g)
           [] token.ty = "TypeAssignment" -> TypeAssignment(token.elements, g)
           [] token.ty = "ValueAssignment" -> ValueAssignment(token.elements, g)
           [] token.ty = "ValueReference" -> ValueReference(token.elements, g)
           [] token.ty = "ComponentType" -> ComponentType(token.elements, g)
           [] token.ty = "NamedType" -> NamedType(token.elements, g)
           [] token.ty = "ValueListType" -> ValueListType(token.elements, g)
           [] token.ty = "BitStringType" -> BitStringType(token.elements, g)
           [] token.ty = "NamedValue" -> NamedValue(token.elements, g)
           [] token.ty = "Type" -> IF token.elements = <<>> THEN IndexError(g)
                                   ELSE _create_sema_node(token.elements[1], g)
           [] token.ty = "SimpleType" -> SimpleType(token.elements, g)
           [] token.ty = "ReferencedType" -> UserDefinedType(token.elements, g)
           [] token.ty = "TaggedType" -> TaggedType(token.elements, g)
           [] token.ty = "SequenceType" -> ConstructedType("SequenceType", token.elements, g)
           [] token.ty = "ChoiceType" -> ConstructedType("ChoiceType", token.elements, g)
           [] token.ty = "SequenceOfType" -> CollectionType("SequenceOfType", token.elements, g)
           [] token.ty = "SetOfType" -> CollectionType("SetOfType", token.elements, g)
           [] OTHER -> Fail("Exception", "Unknown token type: " \o token.ty, g)

\* build_semantic_model (lines 29-38)
RECURSIVE build_semantic_model(_, _)
build_semantic_model(parse_result, g) ==
    IF parse_result = <<>> THEN Ok(<<>>, g)
    ELSE IF ~IsToken(Head(parse_result)) THEN Fail("AssertionError", "", g)
    ELSE LET first == _create_sema_node(Head(parse_result), g)
         IN  IF first.status = "raise" THEN first
             ELSE LET rest == build_semantic_model(Tail(parse_result), first.globals)
                  IN  IF rest.status = "raise" THEN rest
                      ELSE Ok(<<first.value>> \o rest.value, rest.globals)

(***************************************************************************)
(* topological_sort (lines 41-78).                                         *)
(***************************************************************************)
\* d.reference_name() and set(d.references()) of an entity on which both return
NameOf(d) == reference_name(d).value
RefsOf(d) == Range(references(d).value)

\* hash(obj), which a set and a dict take of their members and keys: a list
\* has none
Hashable(obj) == ~IsList(obj)
Unhashable == Raise("TypeError", "unhashable type: 'list'")

\* The first exception raised while line 50 builds the graph, None if none is.
\* For each entity in turn: d.reference_name(), d.references(), set() of the
\* references, which hashes each of them, then the dict's hash of the name.
RECURSIVE GraphError(_, _)
GraphError(ds, i) ==
    IF i > Len(ds) THEN None
    ELSE IF reference_name(ds[i]).status = "raise" THEN reference_name(ds[i])
    ELSE IF references(ds[i]).status = "raise" THEN references(ds[i])
    ELSE IF \E k \in 1..Len(references(ds[i]).value) : ~Hashable(references(ds[i]).value[k])
    THEN Unhashable
    ELSE IF ~Hashable(NameOf(ds[i])) THEN Unhashable
    ELSE GraphError(ds, i + 1)

\* dict((d.reference_name(), set(d.references())) for d in decls): the keys
\* in order of first insertion,
GraphKeys(ds) ==
    LET first == {i \in 1..Len(ds) : \A j \in 1..(i-1) : NameOf(ds[j]) # NameOf(ds[i])}
    IN  [k \in 1..Cardinality(first) |->
            NameOf(ds[CHOOSE i \in first : Cardinality({j \in first : j < i}) = k - 1])]

\* and the mapping itself: a later entity of the same name overwrites.
Graph(ds) ==
    [n \in {NameOf(ds[i]) : i \in 1..Len(ds)} |->
        LET last == CHOOSE i \in 1..Len(ds) :
                        /\ NameOf(ds[i]) = n
                        /\ \A j \in (i+1)..Len(ds) : NameOf(ds[j]) # n
        IN  RefsOf(ds[last])]

HasPredecessorNoSelf(graph, node) ==
    \E predecessor \in DOMAIN graph : predecessor # node /\ node \in graph[predecessor]

\* has_predecessor (lines 52-57), over the graph as it is when called
has_predecessor(graph, node) ==
    \E predecessor \in DOMAIN graph : node \in graph[predecessor]

\* roots = [name for name in graph.keys() if not has_predecessor(name)]
RECURSIVE FilterRoots(_, _)
FilterRoots(keys, graph) ==
    IF keys = <<>> THEN <<>>
    ELSE (IF has_predecessor(graph, Head(keys)) THEN <<>> ELSE <<Head(keys)>>)
         \o FilterRoots(Tail(keys), graph)

InitialRoots(ds) == FilterRoots(GraphKeys(ds), Graph(ds))

\* graph.pop(root, set()): the value removed, and the dict without the key
PopSuccessors(graph, root) == IF root \in DOMAIN graph THEN graph[root] ELSE {}

PopGraphKeep(graph, root) == graph

PopGraph(graph, root) == [n \in DOMAIN graph \ {root} |-> graph[n]]

InsertLast(order, root) == order \o <<root>>

\* topological_order.insert(0, root)
InsertFirst(order, root) == <<root>> \o order

\* The while loop of lines 63-72: every [order, graph] the loop can end with,
\* one per way of enumerating the successor sets in line 70.
RECURSIVE SortLoop(_, _, _)
SortLoop(graph, roots, order) ==
    IF roots = <<>> THEN {[order |-> order, graph |-> graph]}
    ELSE LET root == roots[Len(roots)]
             rest == SubSeq(roots, 1, Len(roots) - 1)
             successors == PopSuccessors(graph, root)
             graph2 == PopGraph(graph, root)
             fresh == {s \in successors : ~has_predecessor(graph2, s)}
         IN  UNION {SortLoop(graph2, rest \o e, InsertFirst(order, root))
                    : e \in Enumerations(fresh)}

\* topological_order.index(name)
Index(order, name) ==
    CHOOSE i \in 1..Len(order) : order[i] = name /\ \A j \in 1..(i-1) : order[j] # name

\* sorted(decls, key=lambda d: topological_order.index(d.reference_name())):
\* a stable sort by key
RECURSIVE SortedBy(_, _)
SortedBy(ds, order) ==
    IF ds = <<>> THEN <<>>
    ELSE LET key(k) == Index(order, NameOf(ds[k]))
             i == CHOOSE k \in 1..Len(ds) :
                    /\ \A j \in 1..Len(ds) : key(k) <= key(j)
                    /\ \A j \in 1..(k-1) : key(j) # key(k)
         IN  <<ds[i]>> \o SortedBy(SubSeq(ds, 1, i-1) \o SubSeq(ds, i+1, Len(ds)), order)

\* What one run of the loop leaves becomes the outcome of topological_sort:
\* the exception of line 75 with the graph left, or the sorted decls. The
\* field order keeps topological_order.
SortOutcome(ds, run) ==
    IF DOMAIN run.graph # {}
    THEN [status |-> "cyclic", graph |-> run.graph, order |-> run.order, sorted |-> <<>>]
    ELSE [status |-> "sorted", graph |-> run.graph, order |-> run.order,
          sorted |-> SortedBy(ds, run.order)]

\* every outcome topological_sort(ds) can have
topological_sort(ds) ==
    IF GraphError(ds, 1) # None
    THEN {[status |-> "raise", exc |-> GraphError(ds, 1).exc, arg |-> GraphError(ds, 1).arg,
           graph |-> <<>>, order |-> <<>>, sorted |-> <<>>]}
    ELSE {SortOutcome(ds, run) : run \in SortLoop(Graph(ds), InitialRoots(ds), <<>>)}

(***************************************************************************)
(* Module.user_types and Module.resolve_type_decl (lines 113-130).         *)
(* A dict is a function from its keys; a call on a Module ends in          *)
(* [outcome, module]: what the call returned or raised, and the Module as  *)
(* the call leaves it (its _user_types filled as far as the call got).     *)
(***************************************************************************)
\* d[key] = value; keys are compared by value, as Python compares the str the
\* names of a parsed module are
DictSet(d, key, value) == [k \in DOMAIN d \cup {key} |-> IF k = key THEN value ELSE d[k]]

\* self._user_types[user_defined.type_name] = user_defined.type_decl (line
\* 117) for the declarations from the i-th on. The right-hand side is
\* evaluated first: an object without the attribute type_decl, or else without
\* type_name, ends the loop with AttributeError, a type_name that cannot be
\* hashed with TypeError, and the loop leaves what was stored before it.
RECURSIVE IndexDeclarations(_, _, _)
IndexDeclarations(declarations, i, cache) ==
    IF i > Len(declarations) THEN [outcome |-> Return(cache), cache |-> cache]
    ELSE IF "type_decl" \notin DOMAIN declarations[i]
    THEN [outcome |-> Raise("AttributeError", "type_decl"), cache |-> cache]
    ELSE IF type_name(declarations[i]).status = "raise"
    THEN [outcome |-> type_name(declarations[i]), cache |-> cache]
    ELSE IF ~Hashable(type_name(declarations[i]).value)
    THEN [outcome |-> Unhashable, cache |-> cache]
    ELSE IndexDeclarations(declarations, i + 1,
            DictSet(cache, type_name(declarations[i]).value, declarations[i].type_decl))

\* Module.user_types (lines 113-119)
user_types(m) ==
    IF DOMAIN m._user_types = {}
    THEN LET scan == IndexDeclarations(m.declarations, 1, m._user_types)
         IN  [outcome |-> scan.outcome, module |-> [m EXCEPT !._user_types = scan.cache]]
    ELSE [outcome |-> Return(m._user_types), module |-> m]

\* Module.resolve_type_decl (lines 121-130); depth counts the frames of the
\* recursion, which the interpreter ends with RecursionError at its limit.
RECURSIVE resolve_type_decl(_, _, _)
resolve_type_decl(m, type_decl, depth) ==
    LET index == user_types(m)
    IN  IF index.outcome.status = "raise" THEN index
        ELSE IF type_decl.class = "UserDefinedType"
        THEN IF ~Hashable(type_decl.type_name)
             THEN [outcome |-> Unhashable, module |-> index.module]
             ELSE IF type_decl.type_name \notin DOMAIN index.outcome.value
             THEN [outcome |-> Raise("KeyError", type_decl.type_name), module |-> index.module]
             ELSE IF depth >= RecursionLimit
             THEN [outcome |-> Raise("RecursionError", ""), module |-> index.module]
             ELSE resolve_type_decl(index.module, index.outcome.value[type_decl.type_name],
                                    depth + 1)
        ELSE [outcome |-> Return(type_decl), module |-> index.module]

(***************************************************************************)
(* The states in which a part of the program has not been used.            *)
(***************************************************************************)
BuildIdle ==
    _unnamed_counter = 0 /\ issued = <<>> /\ build_result = NoResult /\ a_build_failed = FALSE
\* the record of a call made on module, and the one of no call yet
Called(op, arg, outcome) == [op |-> op, arg |-> arg, outcome |-> outcome]
NoCall == Called("none", None, NoResult)

ModuleIdle == module = None /\ call = NoCall /\ ut_calls = <<>>
SortIdle == decls = <<>> /\ sort_result = NoResult /\ sort_previous = NoResult

(***************************************************************************)
(* The sorter's specification: a collection of entities with pairwise      *)
(* distinct names, sorted again and again.                                 *)
(***************************************************************************)
\* names of the entities of a collection, and names that only occur as
\* dependencies
Names == {Str("A"), Str("B"), Str("C")}
ExternalNames == {Str("INTEGER")}
RefNames == Names \cup ExternalNames

RefSets == {S \in SUBSET RefNames : Cardinality(S) <= MaxRefs}
ListOf(S) == CHOOSE e \in Enumerations(S) : TRUE
Entities == {Entity(n, ListOf(S)) : n \in Names, S \in RefSets}

Collections ==
    UNION {{c \in [1..n -> Entities] : \A i, j \in 1..n : c[i].name = c[j].name => i = j}
           : n \in 0..Cardinality(Names)}

SortInit ==
    /\ decls \in Collections
    /\ sort_result = NoResult
    /\ sort_previous = NoResult
    /\ BuildIdle
    /\ ModuleIdle

Sort ==
    /\ \E r \in topological_sort(decls) : sort_result' = r
    /\ sort_previous' = sort_result
    /\ UNCHANGED <<decls, build_vars, module_vars>>

SortNext == Sort

SpecSort == SortInit /\ [][SortNext]_vars

(***************************************************************************)
(* Properties of the dependency sorter.                                    *)
(***************************************************************************)
\* the names of graph that depend on the names of frontier, transitively
RECURSIVE Closure(_, _, _)
Closure(graph, frontier, seen) ==
    LET next == {m \in DOMAIN graph : \E n \in frontier : n \in DOMAIN graph /\ m \in graph[n]}
    IN  IF next \subseteq seen THEN seen ELSE Closure(graph, next \ seen, seen \cup next)

\* the members of graph that n depends on, in one step or more
Reach(graph, n) == Closure(graph, {n}, {})
OnCycle(graph, n) == n \in Reach(graph, n)
HasCycle(graph) == \E n \in DOMAIN graph : OnCycle(graph, n)

SortRan == sort_result.status # "none"
\* the entity named n that references the names of S, n and S given as strings
StrSet(S) == {Str(n) : n \in S}
E(n, S) == Entity(Str(n), ListOf(StrSet(S)))
WithoutExternal(ds) ==
    [i \in 1..Len(ds) |-> Entity(ds[i].name, ListOf(Range(ds[i].refs) \cap Names))]

\* C1: on an acyclic collection of distinctly named entities topological_sort
\* returns a permutation of the collection in which every entity comes after
\* every member it references; [A ::= SEQUENCE { a INTEGER, b B }, B ::= INTEGER]
\* yields [B, A].
C1_DependencyFirst ==
    (SortRan /\ ~HasCycle(Graph(decls))) =>
        /\ sort_result.status = "sorted"
        /\ Len(sort_result.sorted) = Len(decls)
        /\ Range(sort_result.sorted) = Range(decls)
        /\ \A i, j \in 1..Len(sort_result.sorted) :
              sort_result.sorted[j].name \in Range(sort_result.sorted[i].refs) => j < i
        /\ decls = <<E("A", {"INTEGER", "B"}), E("B", {"INTEGER"})>>
              => sort_result.sorted = <<decls[2], decls[1]>>

C1_Witness ==
    /\ decls = <<E("A", {"INTEGER", "B"}), E("B", {"INTEGER"})>>
    /\ sort_result.status = "sorted"
    /\ sort_result.sorted = <<E("B", {"INTEGER"}), E("A", {"INTEGER", "B"})>>

\* C2: topological_sort fails with the cyclic-reference error exactly when the
\* dependencies among the collection's own names contain a cycle (a
\* self-reference included; the ring A->B->C->A fails naming A, B and C), and
\* names that are no member's name never change whether it fails.
C2_FailsIffCycle ==
    SortRan =>
        /\ sort_result.status = "cyclic" <=> HasCycle(Graph(decls))
        /\ (\E i \in 1..Len(decls) : decls[i].name \in Range(decls[i].refs))
              => sort_result.status = "cyclic"
        /\ (/\ Len(decls) = 3
            /\ Graph(WithoutExternal(decls)) = [n \in Names |->
                    IF n = Str("A") THEN {Str("B")}
                    ELSE IF n = Str("B") THEN {Str("C")} ELSE {Str("A")}])
              => /\ sort_result.status = "cyclic"
                 /\ DOMAIN sort_result.graph = StrSet({"A", "B", "C"})
        /\ \A r \in topological_sort(WithoutExternal(decls)) : r.status = sort_result.status

C2_Witness ==
    /\ decls = <<E("A", {"B", "INTEGER"}), E("B", {"C"}), E("C", {"A"})>>
    /\ sort_result.status = "cyclic"
    /\ DOMAIN sort_result.graph = StrSet({"A", "B", "C"})

\* C7: two runs of topological_sort on the same ordered collection return the
\* same output, whatever the enumeration of the successor sets.
C7_Deterministic ==
    (SortRan /\ sort_previous.status # "none") =>
        /\ sort_result.status = sort_previous.status
        /\ sort_result.sorted = sort_previous.sorted

Popped(r) == Range(r.order)

\* C9 as stated: when the stack empties with the graph non-empty, every
\* remaining name lies on a cycle among the remaining names and every popped
\* name lies on no cycle.
C9_RemainderAllOnCycles ==
    sort_result.status = "cyclic" =>
        /\ \A n \in DOMAIN sort_result.graph : OnCycle(sort_result.graph, n)
        /\ \A n \in Popped(sort_result) : ~OnCycle(Graph(decls), n)

\* C9 amended: when the stack empties with the graph non-empty, the remaining
\* names contain a cycle, every remaining name lies on a cycle among the
\* remaining names or is a dependency, direct or transitive, of a remaining
\* name that does, and every popped name lies on no cycle.
C9_RemainderHangsOnCycles ==
    sort_result.status = "cyclic" =>
        /\ HasCycle(sort_result.graph)
        /\ \A n \in DOMAIN sort_result.graph :
              \/ OnCycle(sort_result.graph, n)
              \/ \E m \in DOMAIN sort_result.graph :
                    OnCycle(sort_result.graph, m) /\ n \in Reach(sort_result.graph, m)
        /\ \A n \in Popped(sort_result) : ~OnCycle(Graph(decls), n)

C9_Witness ==
    /\ decls = <<E("A", {"B"}), E("B", {"B", "C"}), E("C", {})>>
    /\ sort_result.status = "cyclic"
    /\ DOMAIN sort_result.graph = StrSet({"B", "C"})
    /\ Popped(sort_result) = StrSet({"A"})
    /\ ~OnCycle(sort_result.graph, Str("C"))

(***************************************************************************)
(* Token trees as the constructors above read them.                        *)
(***************************************************************************)
TypeToken(inner) == AnnotatedToken("Type", <<inner>>)
SimpleTypeToken(name) == TypeToken(AnnotatedToken("SimpleType", <<Str(name)>>))
ReferencedTypeToken(name) == TypeToken(AnnotatedToken("ReferencedType", <<Str(name)>>))
IdentifierToken(name) == AnnotatedToken("Identifier", <<Str(name)>>)
UnnamedComponentToken(type) == AnnotatedToken("ComponentType", <<type>>)
NamedComponentToken(name, type) == AnnotatedToken("ComponentType", <<IdentifierToken(name), type>>)
SequenceTypeToken(components) ==
    TypeToken(AnnotatedToken("SequenceType", <<Str("SEQUENCE"), PyList(components)>>))
TaggedTypeToken(number, type) ==
    TypeToken(AnnotatedToken("TaggedType",
        <<AnnotatedToken("Tag", <<AnnotatedToken("TagClassNumber", <<Str(number)>>)>>), type>>))
TypeAssignmentToken(name, type) == AnnotatedToken("TypeAssignment", <<Str(name), Str("::="), type>>)
ValueAssignmentToken(name, type, value) ==
    AnnotatedToken("ValueAssignment",
        <<AnnotatedToken("ValueReference", <<Str(name)>>), type, Str("::="), value>>)
ModuleToken(name, body) ==
    AnnotatedToken("ModuleDefinition",
        <<AnnotatedToken("ModuleReference", <<Str(name)>>), Str("DEFINITIONS"), Str("::="),
          Str("BEGIN"), AnnotatedToken("ModuleBody", body), Str("END")>>)
\* a token of a type the factory does not know
UnknownToken == AnnotatedToken("Bogus", <<>>)

(***************************************************************************)
(* The builder's specification: one process, build after build.            *)
(***************************************************************************)
BuildComponents ==
    {UnnamedComponentToken(SimpleTypeToken("INTEGER")),
     NamedComponentToken("a", SimpleTypeToken("INTEGER")),
     UnnamedComponentToken(SequenceTypeToken(<<UnnamedComponentToken(SimpleTypeToken("INTEGER"))>>)),
     UnnamedComponentToken(TypeToken(UnknownToken))}

BuildModules ==
    {ModuleToken("M", <<TypeAssignmentToken("T", SequenceTypeToken(cs))>>) :
        cs \in UNION {[1..n -> BuildComponents] : n \in 1..MaxComponents}}

\* a second module of the same build
SecondModules ==
    {ModuleToken("N", <<TypeAssignmentToken("U", t)>>) :
        t \in {SimpleTypeToken("INTEGER"),
               SequenceTypeToken(<<UnnamedComponentToken(SimpleTypeToken("INTEGER")),
                                   UnnamedComponentToken(SimpleTypeToken("INTEGER"))>>)}}

ParseResults ==
    {<<>>} \cup {<<m>> : m \in BuildModules} \cup {<<m, n>> : m \in BuildModules, n \in SecondModules}

BuildInit ==
    /\ _unnamed_counter = 0
    /\ issued = <<>>
    /\ build_result = NoResult
    /\ a_build_failed = FALSE
    /\ SortIdle
    /\ ModuleIdle

Build ==
    /\ _unnamed_counter < MaxUnnamed
    /\ \E parse_result \in ParseResults :
        LET r == build_semantic_model(parse_result,
                                      [counter |-> _unnamed_counter, issued |-> issued])
        IN  /\ _unnamed_counter' = r.globals.counter
            /\ issued' = r.globals.issued
            /\ build_result' = IF r.status = "raise" THEN Raise(r.exc, r.arg)
                               ELSE Return(r.value)
            /\ a_build_failed' = (a_build_failed \/ r.status = "raise")
    /\ UNCHANGED <<sort_vars, module_vars>>

BuildNext == Build

SpecBuild == BuildInit /\ [][BuildNext]_vars

(***************************************************************************)
(* Properties of the counter of unnamed members.                           *)
(***************************************************************************)
\* the SequenceType and ChoiceType nodes below a node
RECURSIVE ConstructedBelow(_)
ConstructedBelow(node) ==
    CASE node.class = "Module" ->
            UNION {ConstructedBelow(node.declarations[i]) : i \in 1..Len(node.declarations)}
      [] node.class \in {"SequenceType", "ChoiceType"} ->
            {node} \cup UNION {ConstructedBelow(node.components[i]) : i \in 1..Len(node.components)}
      [] "type_decl" \in DOMAIN node -> ConstructedBelow(node.type_decl)
      [] OTHER -> {}

IssuedIdentifiers == {issued[i].identifier : i \in 1..Len(issued)}
NumberOf(identifier) == (CHOOSE e \in Range(issued) : e.identifier = identifier).n

\* C6: every synthesized identifier is 'unnamed<n>' with n greater than the n
\* of every identifier synthesized before it in the process, across builds and
\* failed builds; the counter is never behind a number it gave out; and the
\* unnamed components of one Sequence carry distinct identifiers that increase
\* in component order.
C6_UnnamedStrictlyIncreasing ==
    /\ \A i, j \in 1..Len(issued) :
          i < j => /\ issued[i].n < issued[j].n
                   /\ issued[i].identifier # issued[j].identifier
    /\ \A i \in 1..Len(issued) : issued[i].n <= _unnamed_counter
    /\ build_result.status = "return" =>
          \A m \in Range(build_result.value) : \A s \in ConstructedBelow(m) :
              \A i, j \in 1..Len(s.components) :
                  (/\ i < j
                   /\ s.components[i].identifier \in IssuedIdentifiers
                   /\ s.components[j].identifier \in IssuedIdentifiers)
                  => NumberOf(s.components[i].identifier) < NumberOf(s.components[j].identifier)

\* a build that failed part-way, and after it a build that gave a Sequence two
\* unnamed components
C6_Witness ==
    /\ a_build_failed
    /\ build_result.status = "return"
    /\ Len(build_result.value) = 1
    /\ \E s \in ConstructedBelow(build_result.value[1]) :
          /\ Len(s.components) = 2
          /\ s.components[1].identifier = Str("unnamed4")
          /\ s.components[2].identifier = Str("unnamed5")
          /\ s.components[1].type_decl.class = "SimpleType"
    /\ Len(issued) = 5

(***************************************************************************)
(* The resolver's specification: a Module as the factory builds it, and    *)
(* the calls a consumer makes on it.                                       *)
(***************************************************************************)
TypeNames == {"A", "B"}

TypeAssignmentTypes ==
    {SimpleTypeToken("INTEGER"), ReferencedTypeToken("A"), ReferencedTypeToken("B"),
     SequenceTypeToken(<<NamedComponentToken("a", SimpleTypeToken("INTEGER")),
                         NamedComponentToken("b", ReferencedTypeToken("B"))>>)}

ValueAssignmentTypes ==
    {SimpleTypeToken("INTEGER"), ReferencedTypeToken("A"),
     TaggedTypeToken("1", SimpleTypeToken("INTEGER")),
     SequenceTypeToken(<<NamedComponentToken("a", SimpleTypeToken("INTEGER"))>>)}

AssignmentTokens ==
    {TypeAssignmentToken(n, t) : n \in TypeNames, t \in TypeAssignmentTypes}
    \cup {ValueAssignmentToken("v", t, x) :
            t \in ValueAssignmentTypes,
            x \in {Str("5"), AnnotatedToken("ValueReference", <<Str("w")>>)}}

ModuleTokens ==
    {ModuleToken("M", body) :
        body \in UNION {[1..n -> AssignmentTokens] : n \in 0..MaxDeclarations}}

\* the declarations to resolve: the type declarations of the module and
\* references to the names, one of them declared nowhere
ResolveArguments(m) ==
    {m.declarations[i].type_decl : i \in 1..Len(m.declarations)}
    \cup {UserDefinedTypeNode(Str(n)) : n \in TypeNames \cup {"C"}}

ModuleInit ==
    /\ module \in {_create_sema_node(t, [counter |-> 0, issued |-> <<>>]).value : t \in ModuleTokens}
    /\ call = NoCall
    /\ ut_calls = <<>>
    /\ SortIdle
    /\ BuildIdle

CallUserTypes ==
    /\ Len(ut_calls) < MaxCalls
    /\ LET r == user_types(module)
       IN  /\ module' = r.module
           /\ call' = Called("user_types", None, r.outcome)
           /\ ut_calls' = Append(ut_calls, r.outcome)
    /\ UNCHANGED <<sort_vars, build_vars>>

CallResolveTypeDecl ==
    /\ \E type_decl \in ResolveArguments(module) :
        LET r == resolve_type_decl(module, type_decl, 0)
        IN  /\ module' = r.module
            /\ call' = Called("resolve_type_decl", type_decl, r.outcome)
    /\ UNCHANGED <<ut_calls, sort_vars, build_vars>>

CallReferences ==
    /\ \E i \in 1..Len(module.declarations) :
        call' = Called("references", module.declarations[i], references(module.declarations[i]))
    /\ UNCHANGED <<module, ut_calls, sort_vars, build_vars>>

CallTopologicalSort ==
    /\ \E r \in topological_sort(module.declarations) :
        call' = Called("topological_sort", None, r)
    /\ UNCHANGED <<module, ut_calls, sort_vars, build_vars>>

ModuleNext ==
    \/ CallUserTypes
    \/ CallResolveTypeDecl
    \/ CallReferences
    \/ CallTopologicalSort

SpecModule == ModuleInit /\ [][ModuleNext]_vars

(***************************************************************************)
(* Properties of the module resolver and of references().                  *)
(***************************************************************************)
IsTypeAssignment(d) == d.class = "TypeAssignment"
OnlyTypeAssignments(m) == \A i \in 1..Len(m.declarations) : IsTypeAssignment(m.declarations[i])

\* the index of the TypeAssignments by name, the last of a name winning
DeclaredIndex(m) ==
    [n \in {m.declarations[i].type_name :
                i \in {k \in 1..Len(m.declarations) : IsTypeAssignment(m.declarations[k])}} |->
        LET last == CHOOSE i \in 1..Len(m.declarations) :
                        /\ IsTypeAssignment(m.declarations[i])
                        /\ m.declarations[i].type_name = n
                        /\ \A j \in (i+1)..Len(m.declarations) :
                              ~(IsTypeAssignment(m.declarations[j])
                                /\ m.declarations[j].type_name = n)
        IN  m.declarations[last].type_decl]

\* where the chain of forward references from d leads in index: to a
\* declaration that is no forward reference, to a name index lacks, or round
\* a cycle
RECURSIVE ChainFate(_, _, _)
ChainFate(index, d, visited) ==
    IF d.class # "UserDefinedType" THEN [kind |-> "declaration", decl |-> d]
    ELSE IF d.type_name \in visited THEN [kind |-> "cycle"]
    ELSE IF d.type_name \notin DOMAIN index THEN [kind |-> "missing", name |-> d.type_name]
    ELSE ChainFate(index, index[d.type_name], visited \cup {d.type_name})

Resolved == call.op = "resolve_type_decl"
Fate == ChainFate(DeclaredIndex(module), call.arg, {})

\* C3: the first call of user_types() on any Module returns the mapping from
\* the names of its TypeAssignments to their type declarations, the last
\* declaration of a name winning; ValueAssignments contribute nothing.
C3_FirstUserTypesIndexesTypeAssignments ==
    Len(ut_calls) >= 1 => ut_calls[1] = Return(DeclaredIndex(module))

\* C4: resolve_type_decl returns a declaration that is no UserDefinedType
\* unchanged, returns for a UserDefinedType whose chain resolves the first
\* declaration on the chain that is no UserDefinedType, and is idempotent.
C4_ResolveFlattensAndIsIdempotent ==
    Resolved =>
        /\ call.arg.class # "UserDefinedType" => call.outcome = Return(call.arg)
        /\ Fate.kind = "declaration" => call.outcome = Return(Fate.decl)
        /\ call.outcome.status = "return" =>
              /\ call.outcome.value.class # "UserDefinedType"
              /\ resolve_type_decl(module, call.outcome.value, 0).outcome = call.outcome

\* C5: any two calls of user_types() on a Module return the same mapping with
\* the same contents, whatever calls of resolve_type_decl lie between them.
C5_UserTypesMemoized ==
    \A i, j \in 1..Len(ut_calls) :
        i < j => ut_calls[i].status = "return" /\ ut_calls[j] = ut_calls[i]

\* C8: references() of any ValueAssignment returns the name of its type,
\* followed by the name of the value it refers to when its value is a
\* ValueReference, so that topological_sort over the declarations of its
\* Module can build its graph.
C8_ValueAssignmentReferences ==
    /\ (call.op = "references" /\ call.arg.class = "ValueAssignment") =>
          call.outcome = Return(<<type_name(call.arg.type_decl).value>>
                                \o (IF call.arg.value.class = "ValueReference"
                                    THEN <<call.arg.value.name>> ELSE <<>>))
    /\ call.op = "topological_sort" => call.outcome.status # "raise"

\* C10: resolve_type_decl reaches no result exactly when the chain of forward
\* references from its argument visits a name twice; otherwise it returns a
\* declaration or fails with the error that names the first type the chain
\* reaches that is declared nowhere.
C10_ResolveEndsIffChainAcyclic ==
    Resolved =>
        /\ call.outcome = Raise("RecursionError", "") <=> Fate.kind = "cycle"
        /\ Fate.kind = "declaration" => call.outcome.status = "return"
        /\ Fate.kind = "missing" => call.outcome = Raise("KeyError", Fate.name)

(***************************************************************************)
(* What holds of the resolver on the Modules that declare types only.      *)
(***************************************************************************)
TypesOnly_UserTypes == OnlyTypeAssignments(module) => C3_FirstUserTypesIndexesTypeAssignments
TypesOnly_Resolve == OnlyTypeAssignments(module) => C4_ResolveFlattensAndIsIdempotent
TypesOnly_Memoized == OnlyTypeAssignments(module) => C5_UserTypesMemoized
TypesOnly_ResolveEnds == OnlyTypeAssignments(module) => C10_ResolveEndsIffChainAcyclic

====
